---------------------------- MODULE Spec2Model ----------------------------
(***************************************************************************)
(* Numeral-base classification of lexibank_numeralbank_analysed.py:        *)
(* find_system (colexification detector) and Dataset.cmd_makecldf          *)
(* (deduplication, per-language scoring, gold comparison, accumulators,    *)
(* aggregation and the error report).                                      *)
(*                                                                         *)
(* Representation choices                                                  *)
(*   - a Python dict is a sequence of <<key, value>> pairs in insertion    *)
(*     order (iteration order is part of the behaviour);                   *)
(*   - a float that is the quotient of two small integers is the pair      *)
(*     <<numerator, denominator>>; comparisons cross-multiply.  IEEE       *)
(*     division is correctly rounded, so for these magnitudes two          *)
(*     quotients compare as the rationals do and 1/20 is the literal 0.05; *)
(*   - a form is a sequence of characters.                                 *)
(***************************************************************************)
EXTENDS Integers, Sequences, FiniteSets, TLC

VARIABLES
    pc,                 \* position in cmd_makecldf / find_system driver
    wl_languages,       \* wl.languages, the input language list
    relations,          \* unique_relations.json, in key order
    language,           \* the loop variable of the classification loop
    todo,               \* languages the classification loop has not reached
    visited,            \* glottocodes seen by the deduplication loop
    selected_languages, \* result of the deduplication loop
    scores,             \* find_system: system -> score
    cov,                \* find_system: system -> coverage
    colexis,            \* find_system: system -> (conceptA -> conceptB)
    bestSystem,         \* line 243 / 248
    mixed_systems,      \* line 244
    all_scores,         \* exact-match samples
    mixed_scores,       \* mixed-credit samples
    errors,             \* defaultdict(list): (gold, bestSystem) -> entries
    written,            \* rows handed to args.writer.add_language
    log,                \* the aggregate log lines 294-302
    estring             \* the error report, one header per errors key

vars == <<pc, wl_languages, relations, language, todo, visited,
          selected_languages, scores, cov, colexis, bestSystem,
          mixed_systems, all_scores, mixed_scores, errors, written, log,
          estring>>

---------------------------------------------------------------------------
(* Bounds of the model *)

MaxTriples == 2
MaxLangs == 2
MaxDedupLangs == 3

---------------------------------------------------------------------------
(* Generic helpers: ordered dicts, fractions, sequences *)

Frac(n, d) == <<n, d>>
FracLess(a, b) == a[1] * b[2] < b[1] * a[2]
FracEq(a, b) == a[1] * b[2] = b[1] * a[2]
FracAdd(a, b) == <<a[1] * b[2] + b[1] * a[2], a[2] * b[2]>>

Keys(d) == {d[i][1] : i \in 1..Len(d)}
Get(d, k) == d[CHOOSE i \in 1..Len(d) : d[i][1] = k][2]

\* an empty dict
EmptyMap == [x \in {} |-> ""]

RECURSIVE SumInts(_)
SumInts(s) == IF s = <<>> THEN 0 ELSE Head(s) + SumInts(Tail(s))

RECURSIVE SumFracs(_)
SumFracs(s) == IF s = <<>> THEN Frac(0, 1) ELSE FracAdd(Head(s), SumFracs(Tail(s)))

\* list.count(x)
Count(s, x) == Cardinality({i \in 1..Len(s) : s[i] = x})

RECURSIVE SeqsUpTo(_, _)
SeqsUpTo(S, n) ==
    IF n = 0 THEN {<<>>}
    ELSE LET shorter == SeqsUpTo(S, n - 1)
         IN shorter \cup {Append(s, x) : s \in {t \in shorter : Len(t) = n - 1}, x \in S}

---------------------------------------------------------------------------
(* unidecode and the substring test of line 57 *)

\* unidecode's table restricted to the characters the model's forms use:
\* ASCII letters map to themselves, the accented letter folds to "a".
Translit == ("a" :> <<"a">>) @@ ("b" :> <<"b">>) @@ ("a_acute" :> <<"a">>)

RECURSIVE unidecode(_)
unidecode(s) ==
    IF s = <<>> THEN <<>> ELSE Translit[Head(s)] \o unidecode(Tail(s))

\* Python's `sub in s` on strings
Contains(sub, s) ==
    \E i \in 1..(Len(s) - Len(sub) + 1) : SubSeq(s, i, i + Len(sub) - 1) = sub

---------------------------------------------------------------------------
(* find_system, lines 43-71 *)

\* lines 55-60: some form of conceptA occurs inside some form of conceptB
FormHit(lang, conceptA, conceptB) ==
    LET fa == lang.concepts[conceptA]
        fb == lang.concepts[conceptB]
    IN \E i \in 1..Len(fa), j \in 1..Len(fb) :
           Contains(unidecode(fa[i]), unidecode(fb[j]))

\* a plausible variant: the first pair stored for a conceptA is kept
StoreColexisFirst(m, conceptA, conceptB) ==
    IF conceptA \in DOMAIN m THEN m
    ELSE [x \in DOMAIN m \cup {conceptA} |-> IF x = conceptA THEN conceptB ELSE m[x]]

\* line 59: colexis[system][conceptA] = conceptB
StoreColexis(m, conceptA, conceptB) ==
    [x \in DOMAIN m \cup {conceptA} |-> IF x = conceptA THEN conceptB ELSE m[x]]

\* a plausible variant: the hit count is returned undivided
SystemScoreRaw(score, count) ==
    IF count # 0 THEN Frac(score, 1) ELSE Frac(0, 1)

\* lines 67-70: score / count, or 0
SystemScore(score, count) ==
    IF count # 0 THEN Frac(score, count) ELSE Frac(0, 1)

\* lines 51-66: one iteration of the loop over a system's triples.
\* language.concepts[conceptA] is looked up first; language.concepts[conceptB]
\* is looked up only inside the loop over conceptA's forms, so with no form
\* of conceptA it is never looked up and cannot raise KeyError.
TripleStep(lang, acc, triple) ==
    LET relation == triple[1]
        conceptA == triple[2]
        conceptB == triple[3]
        counted  == [acc EXCEPT !.count = @ + 1, !.coverage = @ + 1]
    IN IF relation # "partial" THEN acc
       ELSE IF conceptA \notin DOMAIN lang.concepts THEN acc
       ELSE IF lang.concepts[conceptA] = <<>> THEN counted
       ELSE IF conceptB \notin DOMAIN lang.concepts THEN acc
       ELSE IF FormHit(lang, conceptA, conceptB)
            THEN [counted EXCEPT !.score = @ + 1,
                                 !.colexis = StoreColexis(@, conceptA, conceptB)]
            ELSE counted

RECURSIVE TripleLoop(_, _, _)
TripleLoop(lang, acc, triples) ==
    IF triples = <<>> THEN acc
    ELSE TripleLoop(lang, TripleStep(lang, acc, Head(triples)), Tail(triples))

\* lines 48-50 and the loop: the accumulators of one system after its triples
SystemResult(lang, triples) ==
    TripleLoop(lang, [score |-> 0, count |-> 0, coverage |-> 0, colexis |-> EmptyMap], triples)

\* the per-system accumulators, in the key order of relations
SystemResults(lang, rels) ==
    [i \in 1..Len(rels) |-> SystemResult(lang, rels[i][2])]

\* lines 44-71: the three dicts, in the key order of relations
FindSystemDicts(rels, res) ==
    [scores   |-> [i \in 1..Len(rels) |-> <<rels[i][1], SystemScore(res[i].score, res[i].count)>>],
     coverage |-> [i \in 1..Len(rels) |-> <<rels[i][1], res[i].coverage>>],
     colexis  |-> [i \in 1..Len(rels) |-> <<rels[i][1], res[i].colexis>>]]

find_system(lang, rels) ==
    CHOOSE d \in {FindSystemDicts(rels, res) : res \in {SystemResults(lang, rels)}} : TRUE

---------------------------------------------------------------------------
(* cmd_makecldf: configuration data, lines 148, 171-174, 188-217 *)

\* self.concepts (etc/concepts.tsv): gloss and TEST flag of the master list
self_concepts ==
    { [CONCEPTICON_GLOSS |-> "ONE",   TEST |-> "1"],
      [CONCEPTICON_GLOSS |-> "TWO",   TEST |-> "1"],
      [CONCEPTICON_GLOSS |-> "THREE", TEST |-> "1"],
      [CONCEPTICON_GLOSS |-> "FOUR",  TEST |-> "2"],
      [CONCEPTICON_GLOSS |-> "FIVE",  TEST |-> "2"],
      [CONCEPTICON_GLOSS |-> "SIX",   TEST |-> ""] }

\* line 148 (the keys of the dict)
all_concepts == {c.CONCEPTICON_GLOSS : c \in self_concepts}
\* lines 171-172
one_to_forty == {c.CONCEPTICON_GLOSS : c \in {x \in self_concepts : x.TEST \in {"1", "2"}}}
\* lines 173-174
one_to_thirty == {c.CONCEPTICON_GLOSS : c \in {x \in self_concepts : x.TEST \in {"1"}}}

\* lines 188-194
convert ==
    [Tener |-> "decimal", Twoer |-> "binary", Twentier |-> "vigesimal",
     Fiver |-> "quinary", Unknown |-> "unknown"]

\* lines 198-217
target_bases_table ==
    ("Decimal" :> "decimal") @@ ("decimal" :> "decimal") @@
    ("Decimal-Vigesimal" :> "decimal/vigesimal") @@ ("Vigesimal" :> "vigesimal") @@
    ("Restricted" :> "restricted") @@ ("vigesimal" :> "vigesimal") @@
    ("quinary" :> "quinary") @@ ("quinary AND decimal" :> "quinary/decimal") @@
    ("quinary AND vigesimal" :> "quinary/vigesimal") @@ ("binary" :> "binary") @@
    ("decimal AND vigesimal" :> "decimal/vigesimal") @@ ("duodecimal" :> "duodecimal") @@
    ("octal" :> "octal") @@ ("quinary OR decimal" :> "quinary/decimal") @@
    ("quinary AND vigesimal OR decimal" :> "quinary/vigesimal") @@
    ("quinary AND double decimal" :> "quinary/decimal") @@
    ("octal AND decimal" :> "octal") @@
    ("octal AND duodecimal AND hexadecimal AND vigesimal AND tetravigesimal" :> "octal")

\* lines 230-239: the gold label of a language
RealBase(lang) ==
    IF lang.dataset \in {"numerals", "sand"}
    THEN IF lang.Base \in DOMAIN target_bases_table
         THEN target_bases_table[lang.Base] ELSE "unknown"
    ELSE "unknown"

\* line 253: the gold labels that are compared
ComparedBases == {"quinary", "binary", "decimal", "vigesimal"}

\* the thresholds 0.05 (lines 245, 247) and 0.8 (line 253) as fractions
ScoreThreshold == Frac(1, 20)
CoverageThreshold == Frac(4, 5)

\* lines 94-95
coverage(lang, concepts) ==
    Frac(Cardinality({c \in DOMAIN lang.concepts : c \in concepts}),
         Cardinality(concepts))

---------------------------------------------------------------------------
(* sorted(items, key=lambda x: x[1], reverse=True): a stable sort of pairs, *)
(* descending by the second component (TLA+ index 2)                        *)

\* a plausible variant: ascending order (reverse=True forgotten)
RECURSIVE InsertAsc(_, _)
InsertAsc(sorted, x) ==
    IF sorted = <<>> THEN <<x>>
    ELSE IF FracLess(x[2], Head(sorted)[2])
         THEN <<x>> \o sorted
         ELSE <<Head(sorted)>> \o InsertAsc(Tail(sorted), x)

\* insert x behind every element whose key is not smaller than x's, so that
\* elements with equal keys keep their input order
RECURSIVE InsertDesc(_, _)
InsertDesc(sorted, x) ==
    IF sorted = <<>> THEN <<x>>
    ELSE IF FracLess(Head(sorted)[2], x[2])
         THEN <<x>> \o sorted
         ELSE <<Head(sorted)>> \o InsertDesc(Tail(sorted), x)

RECURSIVE SortLoop(_, _)
SortLoop(done, rest) ==
    IF rest = <<>> THEN done
    ELSE SortLoop(InsertDesc(done, Head(rest)), Tail(rest))

SortedDesc(items) == SortLoop(<<>>, items)

---------------------------------------------------------------------------
(* cmd_makecldf, lines 158-168: one language per glottocode *)

\* lines 161-165: the languages by descending coverage of the master list
SortedLanguages(langs) ==
    LET keyed == [i \in 1..Len(langs) |-> <<langs[i], coverage(langs[i], all_concepts)>>]
        srt   == SortedDesc(keyed)
    IN [i \in 1..Len(srt) |-> srt[i][1]]

\* lines 166-168: one iteration of the filter loop
DedupStep(acc, lang) ==
    IF lang.glottocode \notin acc.visited
    THEN [visited |-> acc.visited \cup {lang.glottocode},
          selected |-> Append(acc.selected, lang)]
    ELSE acc

RECURSIVE DedupLoop(_, _)
DedupLoop(acc, langs) ==
    IF langs = <<>> THEN acc
    ELSE DedupLoop(DedupStep(acc, Head(langs)), Tail(langs))

---------------------------------------------------------------------------
(* cmd_makecldf, lines 241-248: best system and mixed systems *)

\* lines 241-243: first key of the scores sorted by descending score
FirstBestSystem(sc) == SortedDesc(sc)[1][1]

\* a plausible variant: the override threshold applied to scores up to 0.05
OverrideUpTo(sc, best) ==
    IF ~FracLess(ScoreThreshold, Get(sc, best)) THEN "Unknown" ELSE best

\* lines 247-248: a best score below 0.05 is overridden
Override(sc, best) ==
    IF best # "" /\ FracLess(Get(sc, best), ScoreThreshold) THEN "Unknown" ELSE best

\* lines 241-248
BestSystem(sc) == Override(sc, FirstBestSystem(sc))

RECURSIVE FilterMixed(_)
FilterMixed(srt) ==
    IF srt = <<>> THEN <<>>
    ELSE IF FracLess(ScoreThreshold, Head(srt)[2])
         THEN <<convert[Head(srt)[1]]>> \o FilterMixed(Tail(srt))
         ELSE FilterMixed(Tail(srt))

\* lines 244-245
MixedSystems(sc) == FilterMixed(SortedDesc(sc))

---------------------------------------------------------------------------
(* cmd_makecldf, lines 250-282: gold comparison and the accumulators *)

\* a plausible variant: the gate reads the coverage of the "1" subset
GateCoverageThirty(lang) == coverage(lang, one_to_thirty)

\* line 226: cov1, the coverage the gate of line 253 reads
GateCoverage(lang) == coverage(lang, one_to_forty)

\* line 253
GoldEnabled(lang) ==
    /\ RealBase(lang) \in ComparedBases
    /\ ~FracLess(GateCoverage(lang), CoverageThreshold)

\* a plausible variant: the comparison of line 254 inverted
ExactSampleInverted(real_base, best) ==
    IF real_base = convert[best] THEN 0 ELSE 1

\* lines 254-257
ExactSample(real_base, best) ==
    IF real_base = convert[best] THEN 1 ELSE 0

\* lines 263-266
MixedSample(real_base, mixed) ==
    IF \E i \in 1..Len(mixed) : mixed[i] = real_base
    THEN Frac(1, Len(mixed)) ELSE Frac(0, 1)

\* line 258: errors[real_base, bestSystem] += [entry] on a defaultdict(list)
AppendError(errs, key, entry) ==
    IF key \in Keys(errs)
    THEN [i \in 1..Len(errs) |->
            IF errs[i][1] = key THEN <<key, Append(errs[i][2], entry)>> ELSE errs[i]]
    ELSE Append(errs, <<key, <<entry>>>>)

\* lines 269-282: the row of the language (Bases, a formatted string of the
\* scores, and the identity columns other than Glottocode are not modelled)
LanguageRow(lang, best, enabled) ==
    [Glottocode   |-> lang.glottocode,
     BestBase     |-> convert[best],
     Base         |-> IF enabled THEN RealBase(lang) ELSE "unknown",
     Coverage     |-> coverage(lang, all_concepts),
     OneToThirty  |-> coverage(lang, one_to_thirty),
     BaseInSource |-> RealBase(lang)]

---------------------------------------------------------------------------
(* cmd_makecldf, lines 305-322: the error report *)

\* line 315
ReportSystems == <<"Fiver", "Twoer", "Tener", "Twentier">>

\* lines 312-317: colexis[system] is indexed for every master-list concept of
\* the language; a system that is no key of relations raises KeyError
ReportRaises(errs) ==
    \E i \in 1..Len(errs) : \E j \in 1..Len(errs[i][2]) :
        LET e == errs[i][2][j]
        IN /\ DOMAIN e.language.concepts \cap all_concepts # {}
           /\ \E k \in 1..Len(ReportSystems) : ReportSystems[k] \notin Keys(e.colexis)

\* lines 311-317: the evidence table of one entry (Forms column not modelled)
ReportTable(e) ==
    [c \in DOMAIN e.language.concepts \cap all_concepts |->
        [k \in 1..Len(ReportSystems) |->
            LET m == Get(e.colexis, ReportSystems[k])
            IN IF c \in DOMAIN m THEN m[c] ELSE ""]]

\* lines 306-320: one block per errors key, in key order
Report(errs) ==
    [i \in 1..Len(errs) |->
        [gold |-> errs[i][1][1], test |-> errs[i][1][2], n |-> Len(errs[i][2]),
         tables |-> [j \in 1..Len(errs[i][2]) |-> ReportTable(errs[i][2][j])]]]

---------------------------------------------------------------------------
(* Inputs of the classification runs *)

Lexicon ==
    [ONE   |-> << <<"a", "a">> >>,
     TWO   |-> << <<"a", "b">> >>,
     THREE |-> << <<"b", "a">> >>,
     FOUR  |-> << <<"b", "b">> >>,
     FIVE  |-> << <<"a", "a_acute", "a">> >>,
     SIX   |-> << <<"b">> >>]

Language(glottocode, dataset, base, present) ==
    [glottocode |-> glottocode, dataset |-> dataset, Base |-> base,
     concepts |-> [c \in present |-> Lexicon[c]]]

NoLanguage == Language("", "", "", {})

FullSet == {"ONE", "TWO", "THREE", "FOUR", "FIVE"}
NoThree == {"ONE", "TWO", "FOUR", "FIVE"}
OnlyLow == {"ONE", "TWO", "THREE"}

Glottocodes == {"aaaa1234", "bbbb1234"}

\* <<dataset, Base annotation, concepts of the language>>
LanguageKinds ==
    { <<"numerals", "Decimal", FullSet>>, <<"numerals", "Decimal", NoThree>>,
      <<"numerals", "Decimal", OnlyLow>>, <<"sand", "quinary", FullSet>>,
      <<"sand", "quinary", NoThree>>, <<"other", "Decimal", FullSet>> }

LanguagePool ==
    { Language(g, k[1], k[2], k[3]) : g \in Glottocodes, k \in LanguageKinds }

PairConcepts == <<"ONE", "TWO", "THREE", "FOUR", "FIVE">>

\* every ordered pair of distinct concepts of PairConcepts, as "partial" triples
AllPairs ==
    LET n == Len(PairConcepts)
    IN [k \in 1..(n * (n - 1)) |->
          LET a == ((k - 1) \div (n - 1)) + 1
              r == ((k - 1) % (n - 1)) + 1
              b == IF r < a THEN r ELSE r + 1
          IN <<"partial", PairConcepts[a], PairConcepts[b]>>]

TripleLists ==
    { <<>>,
      << <<"partial", "ONE", "FIVE">> >>,
      AllPairs,
      Append(AllPairs, <<"partial", "TWO", "ONE">>) }

SystemOrders ==
    { <<"Fiver", "Twoer", "Tener", "Twentier">>, <<"Twentier", "Tener", "Twoer", "Fiver">> }

RelationTable(order, fiver, tener) ==
    LET triples == [Fiver |-> fiver, Tener |-> tener, Twoer |-> <<>>,
                    Twentier |-> << <<"partial", "ONE", "TWO">> >>]
    IN [i \in 1..Len(order) |-> <<order[i], triples[order[i]]>>]

RelationTables ==
    { RelationTable(o, f, t) : o \in SystemOrders, f \in TripleLists, t \in TripleLists }

NonEmptySeqsUpTo(S, n) == SeqsUpTo(S, n) \ {<<>>}

---------------------------------------------------------------------------
(* Inputs of the find_system runs *)

FindForms ==
    { <<>>, << <<"a">> >>, << <<"a_acute", "b">> >>, << <<"b">>, <<"a">> >> }

FindConcepts == {"ONE", "TWO", "THREE"}

FindLanguages ==
    { [glottocode |-> "aaaa1234", dataset |-> "numerals", Base |-> "Decimal", concepts |-> m] :
        m \in UNION { [P -> FindForms] : P \in SUBSET FindConcepts } }

FindTriples ==
    { <<r, a, b>> : r \in {"partial", "full"}, a \in {"ONE", "TWO"}, b \in {"TWO", "THREE"} }

FindRelations ==
    { << <<"Fiver", l1>>, <<"Tener", l2>> >> :
        l1 \in SeqsUpTo(FindTriples, MaxTriples),
        l2 \in { <<>>, << <<"partial", "ONE", "TWO">> >> } }

---------------------------------------------------------------------------
(* Initial states *)

InitState(langs, rels, start) ==
    /\ pc = start
    /\ wl_languages = langs
    /\ relations = rels
    /\ language = NoLanguage
    /\ todo = <<>>
    /\ visited = {}
    /\ selected_languages = <<>>
    /\ scores = <<>>
    /\ cov = <<>>
    /\ colexis = <<>>
    /\ bestSystem = ""
    /\ mixed_systems = <<>>
    /\ all_scores = <<>>
    /\ mixed_scores = <<>>
    /\ errors = <<>>
    /\ written = <<>>
    /\ log = <<>>
    /\ estring = <<>>

Init ==
    \E langs \in NonEmptySeqsUpTo(LanguagePool, MaxLangs), rels \in RelationTables :
        InitState(langs, rels, "filter")

InitDedup ==
    \E langs \in NonEmptySeqsUpTo({l \in LanguagePool : l.dataset = "numerals"}, MaxDedupLangs) :
        InitState(langs, RelationTable(ReportSystems, AllPairs, <<>>), "filter")

InitFind ==
    \E lang \in FindLanguages, rels \in FindRelations :
        /\ InitState(<<lang>>, rels, "find")

---------------------------------------------------------------------------
(* Actions *)

\* find_system(language, relations) on its own
FindSystem ==
    /\ pc = "find"
    /\ LET r == find_system(wl_languages[1], relations)
       IN /\ language' = wl_languages[1]
          /\ scores' = r.scores
          /\ cov' = r.coverage
          /\ colexis' = r.colexis
    /\ pc' = "found"
    /\ UNCHANGED <<wl_languages, relations, todo, visited, selected_languages,
                   bestSystem, mixed_systems, all_scores, mixed_scores, errors,
                   written, log, estring>>

\* lines 158-168: the filter loop
FilterLanguages ==
    /\ pc = "filter"
    /\ LET r == DedupLoop([visited |-> {}, selected |-> <<>>], SortedLanguages(wl_languages))
       IN /\ visited' = r.visited
          /\ selected_languages' = r.selected
          /\ todo' = r.selected
    /\ pc' = "classify"
    /\ UNCHANGED <<wl_languages, relations, language, scores, cov, colexis,
                   bestSystem, mixed_systems, all_scores, mixed_scores, errors,
                   written, log, estring>>

\* lines 222-293: one iteration of the classification loop
ClassifyLanguage ==
    /\ pc = "classify"
    /\ todo # <<>>
    /\ \E lang \in {Head(todo)} :
       \E r \in {find_system(lang, relations)} :
       \E best \in {BestSystem(r.scores)} :
       \E mixed \in {MixedSystems(r.scores)} :
       LET real_base == RealBase(lang)
           enabled   == GoldEnabled(lang)
           sample    == ExactSample(real_base, best)
       IN /\ language' = lang
          /\ scores' = r.scores
          /\ cov' = r.coverage
          /\ colexis' = r.colexis
          /\ bestSystem' = best
          /\ mixed_systems' = mixed
          /\ all_scores' = IF enabled THEN Append(all_scores, sample) ELSE all_scores
          /\ errors' = IF enabled /\ sample = 0
                       THEN AppendError(errors, <<real_base, best>>,
                                        [language |-> lang, colexis |-> r.colexis])
                       ELSE errors
          /\ mixed_scores' = IF enabled
                             THEN Append(mixed_scores, MixedSample(real_base, mixed))
                             ELSE mixed_scores
          /\ written' = Append(written, LanguageRow(lang, best, enabled))
    /\ todo' = Tail(todo)
    /\ UNCHANGED <<pc, wl_languages, relations, visited, selected_languages, log, estring>>

\* the loop of line 222 is exhausted
EndClassify ==
    /\ pc = "classify"
    /\ todo = <<>>
    /\ pc' = "aggregate"
    /\ UNCHANGED <<wl_languages, relations, language, todo, visited,
                   selected_languages, scores, cov, colexis, bestSystem,
                   mixed_systems, all_scores, mixed_scores, errors, written, log,
                   estring>>

\* lines 294-297: the exact-match lines of the log; line 297 divides by
\* len(all_scores)
LogExact ==
    << <<"Tests", Len(all_scores)>>,
       <<"Hits", Count(all_scores, 1)>>,
       <<"Fails", Count(all_scores, 0)>> >>

\* lines 299-302: the mixed-credit lines; line 302 divides by len(mixed_scores)
LogMixed ==
    << <<"Tests", Len(mixed_scores)>>,
       <<"Hits", SumFracs(mixed_scores)>>,
       <<"Fails", Count(mixed_scores, Frac(0, 1))>> >>

\* lines 294-302
Aggregate ==
    /\ pc = "aggregate"
    /\ IF Len(all_scores) = 0
       THEN /\ log' = LogExact
            /\ pc' = "ZeroDivisionError"
       ELSE /\ log' = LogExact
                      \o << <<"Props", Frac(SumInts(all_scores), Len(all_scores))>> >>
                      \o LogMixed
                      \o << <<"Props", <<SumFracs(mixed_scores), Len(mixed_scores)>> >> >>
            /\ pc' = "report"
    /\ UNCHANGED <<wl_languages, relations, language, todo, visited,
                   selected_languages, scores, cov, colexis, bestSystem,
                   mixed_systems, all_scores, mixed_scores, errors, written,
                   estring>>

\* lines 305-322
WriteErrors ==
    /\ pc = "report"
    /\ IF ReportRaises(errors)
       THEN /\ pc' = "KeyError"
            /\ estring' = estring
       ELSE /\ pc' = "done"
            /\ estring' = Report(errors)
    /\ UNCHANGED <<wl_languages, relations, language, todo, visited,
                   selected_languages, scores, cov, colexis, bestSystem,
                   mixed_systems, all_scores, mixed_scores, errors, written, log>>

Next ==
    \/ FilterLanguages
    \/ ClassifyLanguage
    \/ EndClassify
    \/ Aggregate
    \/ WriteErrors

NextFind == FindSystem

Spec == Init /\ [][Next]_vars

SpecDedup == InitDedup /\ [][Next]_vars

SpecFind == InitFind /\ [][NextFind]_vars

---------------------------------------------------------------------------
(* Vocabulary of the properties, stated on the inputs *)

FormsOf(lang, c) == {lang.concepts[c][i] : i \in 1..Len(lang.concepts[c])}

\* a "partial" triple whose concepts the language both has
BothPresent(lang, t) ==
    /\ t[1] = "partial"
    /\ t[2] \in DOMAIN lang.concepts
    /\ t[3] \in DOMAIN lang.concepts

\* a "partial" triple some form of whose conceptA lies inside a form of conceptB
IsHit(lang, t) ==
    /\ BothPresent(lang, t)
    /\ \E fa \in FormsOf(lang, t[2]), fb \in FormsOf(lang, t[3]) :
           Contains(unidecode(fa), unidecode(fb))

\* the positions of the hits of conceptA a in a triple list
HitPositions(lang, triples, a) ==
    {k \in 1..Len(triples) : triples[k][2] = a /\ IsHit(lang, triples[k])}

HitConcepts(lang, triples) ==
    {triples[k][2] : k \in {j \in 1..Len(triples) : IsHit(lang, triples[j])}}

SetMax(S) == CHOOSE x \in S : \A y \in S : y <= x
SetMin(S) == CHOOSE x \in S : \A y \in S : x <= y

FracLeq(a, b) == ~FracLess(b, a)

---------------------------------------------------------------------------
(* Properties of find_system, checked under SpecFind *)

\* C2 as stated: colexis[system][conceptA] exists exactly for the conceptAs
\* with a hit and is the conceptB of the FIRST "partial" triple with that
\* conceptA that produced a hit.
C2_FirstHitKept ==
    pc = "found" =>
        \A i \in 1..Len(relations) :
            LET triples == relations[i][2]
                m == Get(colexis, relations[i][1])
            IN /\ DOMAIN m = HitConcepts(language, triples)
               /\ \A a \in DOMAIN m :
                      m[a] = triples[SetMin(HitPositions(language, triples, a))][3]

\* C2 amended: colexis[system][conceptA] exists exactly for the conceptAs with
\* a hit and is the conceptB of the LAST "partial" triple with that conceptA
\* that produced a hit (every hit overwrites the entry).
C2_LastHitStored ==
    pc = "found" =>
        \A i \in 1..Len(relations) :
            LET triples == relations[i][2]
                m == Get(colexis, relations[i][1])
            IN /\ DOMAIN m = HitConcepts(language, triples)
               /\ \A a \in DOMAIN m :
                      m[a] = triples[SetMax(HitPositions(language, triples, a))][3]

\* a system with two hits of one conceptA on different conceptBs
C2_Witness ==
    /\ pc = "found"
    /\ \E i \in 1..Len(relations) :
           LET triples == relations[i][2]
           IN \E a \in HitConcepts(language, triples) :
                  \E j, k \in HitPositions(language, triples, a) :
                      j < k /\ triples[j][3] # triples[k][3]

\* C3: the coverage of every system is the number of its "partial" triples
\* whose conceptA and conceptB the language both has.
C3_CoverageCountsBothPresent ==
    pc = "found" =>
        \A i \in 1..Len(relations) :
            LET triples == relations[i][2]
            IN Get(cov, relations[i][1]) =
                   Cardinality({k \in 1..Len(triples) : BothPresent(language, triples[k])})

\* C4: every score is hits/coverage when coverage > 0 and 0 when coverage = 0,
\* hits being the number of triples with a hit; hits <= coverage and the score
\* lies in [0, 1].
C4_ScoreIsHitsOverCoverage ==
    pc = "found" =>
        \A i \in 1..Len(relations) :
            LET triples == relations[i][2]
                hits == Cardinality({k \in 1..Len(triples) : IsHit(language, triples[k])})
                c == Get(cov, relations[i][1])
                sc == Get(scores, relations[i][1])
            IN /\ hits <= c
               /\ c > 0 => FracEq(sc, Frac(hits, c))
               /\ c = 0 => FracEq(sc, Frac(0, 1))
               /\ FracLeq(Frac(0, 1), sc) /\ FracLeq(sc, Frac(1, 1))

\* a system with a proper fraction as score beside a system with coverage 0
C4_Witness ==
    /\ pc = "found"
    /\ \E i, j \in 1..Len(relations) :
           /\ Get(cov, relations[i][1]) = 2
           /\ FracEq(Get(scores, relations[i][1]), Frac(1, 2))
           /\ Get(cov, relations[j][1]) = 0
           /\ relations[j][2] # <<>>

---------------------------------------------------------------------------
(* Properties of cmd_makecldf, checked under Spec and SpecDedup *)

IsPrefix(s, t) == Len(s) <= Len(t) /\ SubSeq(t, 1, Len(s)) = s

LastRow == written[Len(written)]

\* a step of the classification loop: one more row is written
ClassifyStep == Len(written') = Len(written) + 1

\* the step leaves the sample lists and the error log as they are
NoAccounting ==
    /\ all_scores' = all_scores
    /\ mixed_scores' = mixed_scores
    /\ errors' = errors

\* C1 as stated: a language whose coverage of the "1" subset (written as
\* OneToThirty) is below 0.8 gets Base "unknown" and adds no sample and no
\* error entry.
C1_LowOneToThirtyDowngrades ==
    [][(ClassifyStep /\ FracLess(coverage(language', one_to_thirty), CoverageThreshold))
          => (NoAccounting /\ written'[Len(written')].Base = "unknown")]_vars

\* C1 amended: a language whose coverage of the "1" and "2" subset
\* (one_to_forty, cov1) is below 0.8 gets Base "unknown" and adds no sample
\* and no error entry, whatever its gold annotation and predicted label are.
C1_LowOneToFortyDowngrades ==
    [][(ClassifyStep /\ FracLess(coverage(language', one_to_forty), CoverageThreshold))
          => (NoAccounting /\ written'[Len(written')].Base = "unknown")]_vars

\* a language with a comparable gold label, full "1" coverage and one_to_forty
\* coverage below 0.8 has been classified and downgraded
C1_Witness ==
    /\ Len(written) > 0
    /\ FracLess(coverage(language, one_to_forty), CoverageThreshold)
    /\ ~FracLess(coverage(language, one_to_thirty), CoverageThreshold)
    /\ LastRow.BaseInSource \in ComparedBases
    /\ LastRow.Base = "unknown"

\* the systems whose score no other score exceeds
MaxSystems(sc) ==
    {k \in Keys(sc) : \A j \in Keys(sc) : FracLeq(Get(sc, j), Get(sc, k))}

\* C5: bestSystem has a maximal score, unless the maximal score is below 0.05,
\* and then bestSystem is "Unknown" and BestBase "unknown"; with all scores 0
\* the result is "unknown" and mixed_systems is empty.
C5_BestIsMaximalOrUnknown ==
    Len(written) > 0 =>
        LET top == Get(scores, CHOOSE k \in MaxSystems(scores) : TRUE)
        IN /\ FracLess(top, ScoreThreshold)
                => (bestSystem = "Unknown" /\ LastRow.BestBase = "unknown")
           /\ ~FracLess(top, ScoreThreshold)
                => (bestSystem \in MaxSystems(scores)
                    /\ LastRow.BestBase = convert[bestSystem])
           /\ (\A k \in Keys(scores) : FracEq(Get(scores, k), Frac(0, 1)))
                => (LastRow.BestBase = "unknown" /\ mixed_systems = <<>>)

\* a positive top score below 0.05 was overridden
C5_Witness ==
    /\ Len(written) > 0
    /\ bestSystem = "Unknown"
    /\ \E k \in Keys(scores) : FracLess(Frac(0, 1), Get(scores, k))

\* the key orders of a relation table
Reordered(rels) ==
    {[i \in 1..Len(rels) |-> rels[p[i]]] :
        p \in {q \in [1..Len(rels) -> 1..Len(rels)] :
                  \A i, j \in 1..Len(rels) : q[i] = q[j] => i = j}}

\* C6: bestSystem and mixed_systems of a language are the same for every
\* order of the system keys of the relation table.
C6_KeyOrderIrrelevant ==
    Len(written) > 0 =>
        \A rels \in Reordered(relations) :
            LET sc == find_system(language, rels).scores
            IN BestSystem(sc) = bestSystem /\ MixedSystems(sc) = mixed_systems

\* the languages classified so far, and those of them that are compared
Classified == 1..Len(written)
Compared ==
    {i \in Classified :
        /\ RealBase(selected_languages[i]) \in ComparedBases
        /\ FracLeq(CoverageThreshold, coverage(selected_languages[i], one_to_forty))}
Rank(i) == Cardinality({j \in Compared : j <= i})

C7_Accumulators ==
    /\ Len(all_scores) = Cardinality(Compared)
    /\ Len(mixed_scores) = Cardinality(Compared)
    /\ \A i \in Compared :
           all_scores[Rank(i)] =
               IF written[i].BestBase = RealBase(selected_languages[i]) THEN 1 ELSE 0
    /\ Count(all_scores, 1) + Count(all_scores, 0) = Len(all_scores)
    /\ SumInts([i \in 1..Len(errors) |-> Len(errors[i][2])]) = Count(all_scores, 0)
    /\ \A i, j \in 1..Len(errors) : errors[i][1] = errors[j][1] => i = j
    /\ \A i \in 1..Len(errors) : \A j \in 1..Len(errors[i][2]) :
           \E n \in Compared :
               /\ selected_languages[n] = errors[i][2][j].language
               /\ errors[i][1][1] = RealBase(selected_languages[n])
               /\ errors[i][1][2] \in DOMAIN convert
               /\ convert[errors[i][1][2]] = written[n].BestBase
               /\ all_scores[Rank(n)] = 0

C7_AppendOnly ==
    /\ IsPrefix(all_scores, all_scores')
    /\ IsPrefix(mixed_scores, mixed_scores')
    /\ Len(errors) <= Len(errors')
    /\ \A i \in 1..Len(errors) :
           /\ errors'[i][1] = errors[i][1]
           /\ IsPrefix(errors[i][2], errors'[i][2])

\* C7: the sample lists hold one sample per compared language (gold among
\* quinary, binary, decimal, vigesimal and gate coverage >= 0.8) and none for
\* another; an exact sample is 1 iff BestBase equals the gold label; the error
\* entries are as many as the 0 samples, each under (gold, bestSystem); no
\* step removes or alters an earlier sample or entry.
C7_AccumulatorsAppendOnly == []C7_Accumulators /\ [][C7_AppendOnly]_vars

\* two compared languages, one hit and one miss, the miss in the error log
C7_Witness ==
    /\ Len(written) = 2
    /\ Len(all_scores) = 2
    /\ all_scores[1] = 0 /\ all_scores[2] = 1
    /\ Len(errors) = 1

\* C8: a run with empty sample lists reports the rates as "no data" and goes
\* on to the error report.
C8_NoDataReported ==
    (Len(all_scores) = 0 /\ pc \notin {"filter", "classify", "aggregate"})
        => pc \in {"report", "done"}

\* C9: after the filter loop every glottocode of the input has exactly one
\* selected language, whose master-list coverage no input language of that
\* glottocode exceeds, and the selected languages are in non-increasing
\* coverage order.
C9_BestPerGlottocode ==
    pc # "filter" =>
        /\ \A i \in 1..Len(wl_languages) :
               \E j \in 1..Len(selected_languages) :
                   /\ selected_languages[j].glottocode = wl_languages[i].glottocode
                   /\ FracLeq(coverage(wl_languages[i], all_concepts),
                              coverage(selected_languages[j], all_concepts))
                   /\ \A k \in 1..Len(selected_languages) :
                          selected_languages[k].glottocode = wl_languages[i].glottocode
                              => k = j
        /\ \A j \in 1..Len(selected_languages) :
               \E i \in 1..Len(wl_languages) : wl_languages[i] = selected_languages[j]
        /\ \A j \in 1..(Len(selected_languages) - 1) :
               FracLeq(coverage(selected_languages[j + 1], all_concepts),
                       coverage(selected_languages[j], all_concepts))

\* three input languages of two glottocodes, the better-covered language of
\* the shared glottocode coming after the worse one in the input
C9_Witness ==
    /\ pc # "filter"
    /\ Len(wl_languages) = 3
    /\ Len(selected_languages) = 2
    /\ \E i, j \in 1..Len(wl_languages) :
           /\ i < j
           /\ wl_languages[i].glottocode = wl_languages[j].glottocode
           /\ FracLess(coverage(wl_languages[i], all_concepts),
                       coverage(wl_languages[j], all_concepts))

\* C10: when bestSystem is not overridden its canonical name heads
\* mixed_systems, so a compared language with exact sample 1 has a positive
\* mixed-credit sample, also at a top score of exactly 0.05.
C10_BestHeadsMixed ==
    Len(written) > 0 =>
        /\ bestSystem # "Unknown"
             => (mixed_systems # <<>> /\ mixed_systems[1] = convert[bestSystem])
        /\ (Len(written) \in Compared /\ all_scores[Len(all_scores)] = 1)
             => FracLess(Frac(0, 1), mixed_scores[Len(mixed_scores)])

===========================================================================
